---- MODULE Spec2Model ----
(***************************************************************************)
(* Parallel regridding with ESMPy and mpi4py (esmpy_mpi_example.py).       *)
(* Every MPI rank runs the same script; the model has one program counter  *)
(* per rank and one action per stretch of the script between two blocking  *)
(* calls.  Arrays are modelled as numpy stores them: a shape, a memory     *)
(* order and the linear memory, so that transposition and                  *)
(* ascontiguousarray are real conversions.                                 *)
(***************************************************************************)
EXTENDS Integers, Sequences, FiniteSets, TLC

\* ------------------------------------------------------------------ bounds
MaxSize == 3        \* largest communicator size explored
MaxRows == 4        \* most rows (axis 0 as loaded) of the destination grid
MaxCols == 2        \* most columns (axis 1 as loaded) of the destination grid

\* Shapes (as loaded) of the source grid: smaller than, overlapping and
\* covering the destination grids explored.
SourceExtents == {<<2, 2>>, <<3, 1>>, <<4, 2>>}

\* ------------------------------------------------------- python values
\* Integer-valued names: an int, a list of ints indexed from 0, None, or a
\* name the script has not assigned yet.
PyInt(n) == [kind |-> "int", val |-> <<n>>]
PyList(f) == [kind |-> "list", val |-> f]
\* The numbers of a list of ints, by index.
Ints(list) == [q \in DOMAIN list.val |-> list.val[q].val[1]]
None == [kind |-> "None", val |-> <<>>]
Unbound == [kind |-> "unbound", val |-> <<>>]
CENTER == "CENTER"              \* ESMF.StaggerLoc.CENTER

\* Values a toggle of the CONFIG block can be set to.
PyBools == {"True", "False"}
GathervToggles == {"True", "False", "'gatherv'"}
LayoutToggles == {"True", "False", "None"}

\* `if X:` of Python: None, False, 0 and empty containers are false.
Truthy(v) == v \notin {"False", "None", "0", "''"}

Min(a, b) == IF a < b THEN a ELSE b
Max(a, b) == IF a > b THEN a ELSE b

\* ------------------------------------------------------------ numpy arrays
\* An array is [shape, order, mem]; mem is the linear memory, 0-based.
Size(a) == a.shape[1] * a.shape[2]

Offset(shape, order, i, j) ==
    IF order = "C" THEN i * shape[2] + j ELSE j * shape[1] + i

Elem(a, i, j) == a.mem[Offset(a.shape, a.order, i, j)]

\* Same shape and same element at every index, whatever the memory order.
ArrEq(a, b) ==
    /\ a.shape = b.shape
    /\ \A i \in 0..(a.shape[1] - 1) : \A j \in 0..(a.shape[2] - 1) :
          Elem(a, i, j) = Elem(b, i, j)

\* Array of the given shape and order whose element (i, j) is f[<<i, j>>].
MkArray(shape, order, f) ==
    [shape |-> shape, order |-> order,
     mem |-> [k \in 0..(shape[1] * shape[2] - 1) |->
                IF order = "C"
                THEN f[<<k \div shape[2], k % shape[2]>>]
                ELSE f[<<k % shape[1], k \div shape[1]>>]]]

Indices(shape) == (0..(shape[1] - 1)) \X (0..(shape[2] - 1))

\* ndarray.T : a view on the same memory, axes and order swapped.
Transpose(a) ==
    [shape |-> <<a.shape[2], a.shape[1]>>,
     order |-> IF a.order = "C" THEN "F" ELSE "C",
     mem |-> a.mem]

\* flags.c_contiguous
IsCContiguous(a) == a.order = "C" \/ a.shape[1] <= 1 \/ a.shape[2] <= 1

\* A row-major copy made by reading the memory as column-major, whatever
\* order the array is held in.
ascontiguousarray_fromF(a) ==
    MkArray(a.shape, "C", [ij \in Indices(a.shape) |-> a.mem[ij[2] * a.shape[1] + ij[1]]])

\* The array handed back as it is, whatever its memory order.
ascontiguousarray_view(a) == a

\* np.ascontiguousarray: the array itself when already C contiguous,
\* otherwise a row-major copy.
ascontiguousarray(a) ==
    IF IsCContiguous(a) THEN a
    ELSE MkArray(a.shape, "C", [ij \in Indices(a.shape) |-> Elem(a, ij[1], ij[2])])

\* The memory MPI reads when handed the array as a send buffer.
Buffer(a) == a.mem

\* a[ylo:yhi, xlo:xhi] with non-negative bounds: numpy clips to the shape.
Slice(a, ylo, yhi, xlo, xhi) ==
    LET y0 == Min(ylo, a.shape[1])
        y1 == Min(yhi, a.shape[1])
        x0 == Min(xlo, a.shape[2])
        x1 == Min(xhi, a.shape[2])
        shp == <<Max(0, y1 - y0), Max(0, x1 - x0)>>
    IN MkArray(shp, a.order,
               [ij \in Indices(shp) |-> Elem(a, y0 + ij[1], x0 + ij[2])])

\* `target[...] = value`: value is broadcast to target's shape.
CanBroadcast(from, to) ==
    /\ from[1] \in {1, to[1]}
    /\ from[2] \in {1, to[2]}

AssignAll(target, value) ==
    MkArray(target.shape, target.order,
            [ij \in Indices(target.shape) |->
               Elem(value,
                    IF value.shape[1] = target.shape[1] THEN ij[1] ELSE 0,
                    IF value.shape[2] = target.shape[2] THEN ij[2] ELSE 0)])

\* np.empty(shape): C order, contents are whatever the memory held.
empty(shape, g) == MkArray(shape, "C", [ij \in Indices(shape) |-> g])
GarbageVals == {0, 99}

\* Array-valued names that hold no array: None, not assigned yet, or a
\* Python list of arrays.
NoArray(what) == [shape |-> <<0, 0>>, order |-> what, mem |-> <<>>]
NoneArray == NoArray("None")
UnboundArray == NoArray("unbound")
IsArray(a) == a.order \in {"C", "F"}

\* ------------------------------------------------------------- input files
\* The .npz files hold 2-D arrays in C order.  lat and lon are the file
\* indices of a point, so equal coordinates mean the same place on both
\* grids; the data are distinct and non-zero.
RucKeys == {"lat", "lon", "dpc"}

\* Names IVAR may be set to; "rh" is not in the source file.
Variables == {"dpc", "rh"}

FileArray(shape, key) ==
    MkArray(shape, "C",
            [ij \in Indices(shape) |->
               CASE key = "lat" -> ij[1]
                 [] key = "lon" -> ij[2]
                 [] OTHER -> 1 + ij[1] * shape[2] + ij[2]])

\* ------------------------------------------------------------------- state
VARIABLES
    IVAR, GATHERV, VERBOSE, PLOT, FORTRAN_CONTIGUOUS,   \* the CONFIG block
    size,               \* comm.size
    rucShape, namShape, \* shapes of lat and lon in the two .npz files
    datShape,           \* shape of the array ruc[IVAR] in the source file
    pc,                 \* per rank: the call the rank is at or inside
    calls,              \* per rank: the collective calls issued so far
    final,              \* per rank: the variable `final`
    sourcegrid, destgrid,
    bounds,             \* per rank: <<x_lower, x_upper, y_lower, y_upper>>
    slat, slon, sourcefield,
    dlat, dlon, destfield,
    sendcounts, displacements,
    sent,               \* contributions handed to the gathering collectives
    overtaken,          \* a rank has contributed before a lower-numbered one
    writes,             \* per cell of the root's buffer: times written
    exported            \* what has been plotted or saved, and by whom

config == <<IVAR, GATHERV, VERBOSE, PLOT, FORTRAN_CONTIGUOUS, size, rucShape, namShape,
            datShape>>
srcvars == <<sourcegrid, slat, slon, sourcefield>>
dstvars == <<destgrid, dlat, dlon, destfield>>
plan == <<sendcounts, displacements>>
mpi == <<sent, overtaken>>
vars == <<config, pc, calls, final, srcvars, bounds, dstvars, plan, mpi,
          writes, exported>>

Ranks == 0..(size - 1)
rank0 == 0

\* ----------------------------------------------------------- data loading
\* Lines 77-94: the arrays every rank loads, transposed when
\* FORTRAN_CONTIGUOUS is set.
Loaded(shape, key) ==
    IF Truthy(FORTRAN_CONTIGUOUS) THEN Transpose(FileArray(shape, key))
    ELSE FileArray(shape, key)

dat == Loaded(datShape, IVAR)
rlat == Loaded(rucShape, "lat")
rlon == Loaded(rucShape, "lon")
nlat == Loaded(namShape, "lat")
nlon == Loaded(namShape, "lon")

\* ---------------------------------------------------------------- ESMPy
\* First global index of rank r when n indices are dealt to `count` ranks
\* in contiguous bands, the remainder one each to the lowest ranks.
DecompLower(n, count, r) == r * (n \div count) + Min(r, n % count)

\* ESMF.Grid(max_index, ...): the grid is decomposed along dimension 0 and
\* each rank's object carries its own global bounds (upper bound exclusive).
Grid(max_index, r, count) ==
    [max_index |-> max_index,
     lower_bounds |-> [s \in {CENTER} |->
                         <<DecompLower(max_index[1], count, r), 0>>],
     upper_bounds |-> [s \in {CENTER} |->
                         <<DecompLower(max_index[1], count, r + 1), max_index[2]>>]]

NoGrid ==
    [max_index |-> <<>>,
     lower_bounds |-> [s \in {CENTER} |-> <<>>],
     upper_bounds |-> [s \in {CENTER} |-> <<>>]]

LocalShape(grid) ==
    <<grid.upper_bounds[CENTER][1] - grid.lower_bounds[CENTER][1],
      grid.upper_bounds[CENTER][2] - grid.lower_bounds[CENTER][2]>>

\* grid.get_coords(d) and ESMF.Field(grid).data: rank-local arrays of the
\* grid's local shape, held in Fortran order.
LocalArray(grid) ==
    MkArray(LocalShape(grid), "F", [ij \in Indices(LocalShape(grid)) |-> 0])

\* get_processor_bounds with the two axes taken from each other's index.
get_processor_bounds_swapped(target, staggerloc) ==
    <<target.lower_bounds[staggerloc][1], target.upper_bounds[staggerloc][1],
      target.lower_bounds[staggerloc][2], target.upper_bounds[staggerloc][2]>>

\* get_processor_bounds with y_lower_bound read at the index of x_lower_bound.
get_processor_bounds_ylower(target, staggerloc) ==
    <<target.lower_bounds[staggerloc][2], target.upper_bounds[staggerloc][2],
      target.lower_bounds[staggerloc][2], target.upper_bounds[staggerloc][1]>>

\* get_processor_bounds with x_upper_bound taken as an inclusive bound.
get_processor_bounds_inclusive(target, staggerloc) ==
    <<target.lower_bounds[staggerloc][2], target.upper_bounds[staggerloc][2] - 1,
      target.lower_bounds[staggerloc][1], target.upper_bounds[staggerloc][1]>>

\* Lines 47-63.  Python index [1] is the second entry of the tuple.
get_processor_bounds(target, staggerloc) ==
    LET x_lower_bound == target.lower_bounds[staggerloc][2]
        x_upper_bound == target.upper_bounds[staggerloc][2]
        y_lower_bound == target.lower_bounds[staggerloc][1]
        y_upper_bound == target.upper_bounds[staggerloc][1]
    IN <<x_lower_bound, x_upper_bound, y_lower_bound, y_upper_bound>>

\* global[y_lower_bound:y_upper_bound, x_lower_bound:x_upper_bound]
LocalSlice(global, b) == Slice(global, b[3], b[4], b[1], b[2])

\* Lines 162-168: Regrid(..., BILINEAR, IGNORE) followed by its call.  A
\* destination point takes the value of the source point at the same
\* coordinates, whichever rank holds it; a point no source cell covers is
\* left at 0.
SourceAt(lat, lon) ==
    {<<q, ij>> \in UNION {{q} \X Indices(slat[q].shape) : q \in Ranks} :
        /\ Elem(slat[q], ij[1], ij[2]) = lat
        /\ Elem(slon[q], ij[1], ij[2]) = lon}

Unmapped(lat, lon) == SourceAt(lat, lon) = {}

RegridValue(lat, lon) ==
    IF Unmapped(lat, lon) THEN 0
    ELSE LET hit == CHOOSE h \in SourceAt(lat, lon) : TRUE
         IN Elem(sourcefield[hit[1]], hit[2][1], hit[2][2])

regrid(r) ==
    MkArray(destfield[r].shape, destfield[r].order,
            [ij \in Indices(destfield[r].shape) |->
               RegridValue(Elem(dlat[r], ij[1], ij[2]),
                           Elem(dlon[r], ij[1], ij[2]))])

\* ---------------------------------------------------------------- mpi4py
\* A collective every rank has to join before any rank leaves it (grid and
\* regrid construction, the regrid call, Barrier): rank r is inside its
\* latest call, and leaves once every rank has issued the same call.
Joined(r) ==
    LET k == Len(calls[r])
    IN \A q \in Ranks : Len(calls[q]) >= k /\ calls[q][k] = calls[r][k]

Enter(r, call) == calls' = [calls EXCEPT ![r] = Append(@, call)]

\* A root that returns from the collective without waiting for the others.
AllSent_nowait(r, call) == TRUE

\* comm.gather at the root returns once every other rank has contributed;
\* the list it returns is indexed by rank.
AllSent(r, call) ==
    LET k == Len(calls[r]) + 1
    IN \A q \in Ranks \ {r} : Len(calls[q]) >= k /\ calls[q][k] = call

\* The ranks reach a gathering collective in any order.  Rank r, about to
\* contribute to its next collective, overtakes a lower-numbered rank other
\* than the root that has not issued that call yet.
Arrive(r) ==
    overtaken' = (overtaken \/ \E q \in 1..(r - 1) : Len(calls[q]) <= Len(calls[r]))

\* A gather that lists the contributions from the last rank to the first.
gather_reversed(channel, r, own) ==
    [q \in Ranks |-> IF size - 1 - q = r THEN own ELSE sent[channel][size - 1 - q]]

\* A gather that returns the root's own contribution only.
gather_own(channel, r, own) == [q \in {r} |-> own]

gather(channel, r, own) ==
    [q \in Ranks |-> IF q = r THEN own ELSE sent[channel][q]]

\* Gatherv leaving the last element of every block unwritten.
RECURSIVE Placed_short(_, _, _, _, _)
Placed_short(mem, counts, displs, sbufs, n) ==
    IF n = 0 THEN mem
    ELSE LET prev == Placed_short(mem, counts, displs, sbufs, n - 1)
             q == n - 1
         IN [k \in DOMAIN mem |->
               IF k >= displs[q] /\ k < displs[q] + counts[q] - 1
               THEN sbufs[q][k - displs[q]]
               ELSE prev[k]]

\* comm.Gatherv at the root: rank q's send buffer goes to
\* recv[displs[q] .. displs[q] + counts[q] - 1], ranks taken in order.
RECURSIVE Placed(_, _, _, _, _)
Placed(mem, counts, displs, sbufs, n) ==
    IF n = 0 THEN mem
    ELSE LET prev == Placed(mem, counts, displs, sbufs, n - 1)
             q == n - 1
         IN [k \in DOMAIN mem |->
               IF k >= displs[q] /\ k < displs[q] + counts[q]
               THEN sbufs[q][k - displs[q]]
               ELSE prev[k]]

\* MPI rejects a message longer than the count announced for it and a block
\* that does not lie inside the receive buffer.
GathervFits(mem, counts, displs, sbufs) ==
    \A q \in DOMAIN counts :
        /\ DOMAIN sbufs[q] = 0..(counts[q] - 1)
        /\ displs[q] >= 0
        /\ displs[q] + counts[q] <= Cardinality(DOMAIN mem)

Written(mem, counts, displs) ==
    [k \in DOMAIN mem |->
       Cardinality({q \in DOMAIN counts :
                      k >= displs[q] /\ k < displs[q] + counts[q]})]

\* np.concatenate(pieces, axis=0): the pieces stacked along the rows, in
\* list order; all pieces must agree on the other axis.
RECURSIVE RowStart(_, _)
RowStart(pieces, q) ==
    IF q = 0 THEN 0 ELSE RowStart(pieces, q - 1) + pieces[q - 1].shape[1]

CanConcatenate(pieces) ==
    \A q \in DOMAIN pieces : pieces[q].shape[2] = pieces[0].shape[2]

\* The list comprehension of line 216 walking the ranks from the last to the
\* first: piece q of the result is piece n-1-q of the list.
concatenate_reversed(pieces) ==
    LET n == Cardinality(DOMAIN pieces)
        rev == [q \in DOMAIN pieces |-> pieces[n - 1 - q]]
        shp == <<RowStart(rev, n), rev[0].shape[2]>>
        Piece(i) == CHOOSE q \in DOMAIN rev :
                       RowStart(rev, q) <= i /\ i < RowStart(rev, q + 1)
    IN MkArray(shp, "C",
               [ij \in Indices(shp) |->
                  Elem(rev[Piece(ij[1])],
                       ij[1] - RowStart(rev, Piece(ij[1])), ij[2])])

concatenate(pieces) ==
    LET n == Cardinality(DOMAIN pieces)
        shp == <<RowStart(pieces, n), pieces[0].shape[2]>>
        Piece(i) == CHOOSE q \in DOMAIN pieces :
                       RowStart(pieces, q) <= i /\ i < RowStart(pieces, q + 1)
    IN MkArray(shp, "C",
               [ij \in Indices(shp) |->
                  Elem(pieces[Piece(ij[1])],
                       ij[1] - RowStart(pieces, Piece(ij[1])), ij[2])])

\* ------------------------------------------------------------- the script
Start ==
    /\ pc = [r \in Ranks |-> "start"]
    /\ calls = [r \in Ranks |-> <<>>]
    /\ final = [r \in Ranks |-> UnboundArray]
    /\ sourcegrid = [r \in Ranks |-> NoGrid]
    /\ destgrid = [r \in Ranks |-> NoGrid]
    /\ bounds = [r \in Ranks |-> <<>>]
    /\ slat = [r \in Ranks |-> UnboundArray]
    /\ slon = [r \in Ranks |-> UnboundArray]
    /\ sourcefield = [r \in Ranks |-> UnboundArray]
    /\ dlat = [r \in Ranks |-> UnboundArray]
    /\ dlon = [r \in Ranks |-> UnboundArray]
    /\ destfield = [r \in Ranks |-> UnboundArray]
    /\ sendcounts = [r \in Ranks |-> Unbound]
    /\ displacements = [r \in Ranks |-> Unbound]
    /\ sent = [sendcounts |-> [r \in Ranks |-> Unbound],
               displacements |-> [r \in Ranks |-> Unbound],
               Gatherv |-> [r \in Ranks |-> <<>>],
               gather |-> [r \in Ranks |-> UnboundArray]]
    /\ overtaken = FALSE
    /\ writes = <<>>
    /\ exported = [by |-> rank0, how |-> "nothing", array |-> UnboundArray]

\* The shape an array has in its file for it to have shape e once loaded.
FileShape(e) == IF Truthy(FORTRAN_CONTIGUOUS) THEN <<e[2], e[1]>> ELSE e

\* Runs with the toggles set to booleans, over the grids and sizes explored.
Init ==
    /\ IVAR \in Variables
    /\ GATHERV \in PyBools
    /\ VERBOSE \in PyBools
    /\ PLOT \in PyBools
    /\ FORTRAN_CONTIGUOUS \in PyBools
    /\ size \in 1..MaxSize
    /\ rucShape \in {FileShape(e) : e \in SourceExtents}
    /\ namShape \in {FileShape(e) : e \in (1..MaxRows) \X (1..MaxCols)}
    /\ datShape = rucShape
    /\ Start

\* Runs of seven ranks on a destination grid of nine rows, with either
\* strategy and the toggles otherwise as the script sets them.
InitSeven ==
    /\ IVAR = "dpc"
    /\ GATHERV \in PyBools
    /\ VERBOSE = "False"
    /\ PLOT = "True"
    /\ FORTRAN_CONTIGUOUS = "True"
    /\ size = 7
    /\ rucShape = FileShape(<<4, 2>>)
    /\ namShape = FileShape(<<9, 2>>)
    /\ datShape = rucShape
    /\ Start

InitEquivalence == Init \/ InitSeven

\* Runs of one pair of grids with the strategy and layout toggles set to
\* any of the values explored, booleans or not.
InitConfig ==
    /\ IVAR \in Variables
    /\ GATHERV \in GathervToggles
    /\ VERBOSE \in PyBools
    /\ PLOT \in PyBools
    /\ FORTRAN_CONTIGUOUS \in LayoutToggles
    /\ size \in 1..MaxSize
    /\ rucShape = FileShape(<<2, 1>>)
    /\ namShape = FileShape(<<3, 2>>)
    /\ datShape = rucShape
    /\ Start

\* Runs of every setting of the four toggles and every size, on one small
\* pair of grids.
InitToggles ==
    /\ IVAR \in Variables
    /\ GATHERV \in PyBools
    /\ VERBOSE \in PyBools
    /\ PLOT \in PyBools
    /\ FORTRAN_CONTIGUOUS \in PyBools
    /\ size \in 1..MaxSize
    /\ rucShape = FileShape(<<1, 1>>)
    /\ namShape = FileShape(<<2, 1>>)
    /\ datShape = rucShape
    /\ Start

\* Shapes (as loaded) of ruc[IVAR] in a source file whose lat and lon have
\* four rows and two columns: the same shape, fewer rows, fewer columns.
DataExtents == {<<4, 2>>, <<3, 2>>, <<2, 2>>, <<4, 1>>}

\* Runs on a source file whose data array may be smaller than its
\* coordinate arrays.
InitMismatch ==
    /\ IVAR = "dpc"
    /\ GATHERV \in PyBools
    /\ VERBOSE \in PyBools
    /\ PLOT \in PyBools
    /\ FORTRAN_CONTIGUOUS \in PyBools
    /\ size \in 1..MaxSize
    /\ rucShape = FileShape(<<4, 2>>)
    /\ namShape = FileShape(<<3, 2>>)
    /\ datShape \in {FileShape(e) : e \in DataExtents}
    /\ Start

\* The rank test left out: every rank takes the root's branch.
IsRoot_any(r) == TRUE

\* `rank == 0` of lines 102, 212 and 218.
IsRoot(r) == r = rank0

\* A lookup that never raises.
KeyError_never(keys, key) == FALSE

\* ruc[IVAR] of lines 79 and 83 raises KeyError for a name not in the file.
KeyError(keys, key) == key \notin keys

\* Lines 73-111: load the two files, allocate `final`, call ESMF.Grid for
\* the source grid.  An IVAR the file does not hold raises KeyError.
Load(r) ==
    /\ pc[r] = "start"
    /\ IF KeyError(RucKeys, IVAR)
       THEN /\ pc' = [pc EXCEPT ![r] = "failed"]
            /\ UNCHANGED <<calls, final, writes>>
       ELSE /\ IF Truthy(GATHERV)
               THEN IF IsRoot(r)
                    THEN \E g \in GarbageVals :
                           /\ final' = [final EXCEPT ![r] = empty(nlat.shape, g)]
                           /\ writes' = [k \in 0..(Size(nlat) - 1) |-> 0]
                    ELSE /\ final' = [final EXCEPT ![r] = NoneArray]
                         /\ UNCHANGED writes
               ELSE UNCHANGED <<final, writes>>
            /\ pc' = [pc EXCEPT ![r] = "Grid_source"]
            /\ Enter(r, "Grid")
    /\ UNCHANGED <<config, srcvars, bounds, dstvars, plan, mpi, exported>>

\* Lines 131-143: fill the source coordinates and the source field from the
\* rank's slice, then call ESMF.Grid for the destination grid.  An
\* assignment whose right-hand side cannot be broadcast raises ValueError.
FillSource(r, grid, b) ==
    LET piece == LocalSlice(rlat, b)
        data == LocalSlice(dat, b)
    IN IF ~CanBroadcast(piece.shape, LocalShape(grid))
       THEN /\ pc' = [pc EXCEPT ![r] = "failed"]
            /\ UNCHANGED <<slat, slon, sourcefield, calls>>
       ELSE /\ slat' = [slat EXCEPT ![r] = AssignAll(LocalArray(grid), LocalSlice(rlat, b))]
            /\ slon' = [slon EXCEPT ![r] = AssignAll(LocalArray(grid), LocalSlice(rlon, b))]
            /\ IF CanBroadcast(data.shape, LocalShape(grid))
               THEN /\ sourcefield' = [sourcefield EXCEPT ![r] =
                                         AssignAll(LocalArray(grid), data)]
                    /\ pc' = [pc EXCEPT ![r] = "Grid_dest"]
                    /\ Enter(r, "Grid")
               ELSE /\ sourcefield' = [sourcefield EXCEPT ![r] = LocalArray(grid)]
                    /\ pc' = [pc EXCEPT ![r] = "failed"]
                    /\ UNCHANGED calls

\* Lines 110-128: the source grid exists; take its bounds.  With VERBOSE the
\* rank waits in a Barrier before printing them.
SourceGrid(r) ==
    /\ pc[r] = "Grid_source"
    /\ Joined(r)
    /\ LET grid == Grid(rlat.shape, r, size)
           b == get_processor_bounds(grid, CENTER)
       IN /\ sourcegrid' = [sourcegrid EXCEPT ![r] = grid]
          /\ bounds' = [bounds EXCEPT ![r] = b]
          /\ IF Truthy(VERBOSE)
             THEN /\ pc' = [pc EXCEPT ![r] = "Barrier_bounds"]
                  /\ Enter(r, "Barrier")
                  /\ UNCHANGED <<slat, slon, sourcefield>>
             ELSE FillSource(r, grid, b)
    /\ UNCHANGED <<config, final, dstvars, plan, mpi, writes, exported>>

\* Lines 127-143: past the Barrier.
BoundsBarrier(r) ==
    /\ pc[r] = "Barrier_bounds"
    /\ Joined(r)
    /\ FillSource(r, sourcegrid[r], bounds[r])
    /\ UNCHANGED <<config, final, sourcegrid, bounds, dstvars, plan, mpi,
                   writes, exported>>

\* Lines 141-163: the destination grid exists; its bounds overwrite the
\* source grid's, the coordinates are filled, the destination field is
\* created and ESMF.Regrid is called.
DestGrid(r) ==
    /\ pc[r] = "Grid_dest"
    /\ Joined(r)
    /\ LET grid == Grid(nlat.shape, r, size)
           b == get_processor_bounds(grid, CENTER)
           piece == LocalSlice(nlat, b)
       IN /\ destgrid' = [destgrid EXCEPT ![r] = grid]
          /\ bounds' = [bounds EXCEPT ![r] = b]
          /\ IF CanBroadcast(piece.shape, LocalShape(grid))
             THEN /\ dlat' = [dlat EXCEPT ![r] = AssignAll(LocalArray(grid), LocalSlice(nlat, b))]
                  /\ dlon' = [dlon EXCEPT ![r] = AssignAll(LocalArray(grid), LocalSlice(nlon, b))]
                  /\ destfield' = [destfield EXCEPT ![r] = LocalArray(grid)]
                  /\ pc' = [pc EXCEPT ![r] = "Regrid"]
                  /\ Enter(r, "Regrid")
             ELSE /\ pc' = [pc EXCEPT ![r] = "failed"]
                  /\ UNCHANGED <<dlat, dlon, destfield, calls>>
    /\ UNCHANGED <<config, final, srcvars, plan, mpi, writes, exported>>

\* Lines 162-168: the weights exist; call the regrid object.
RegridWeights(r) ==
    /\ pc[r] = "Regrid"
    /\ Joined(r)
    /\ pc' = [pc EXCEPT ![r] = "regrid"]
    /\ Enter(r, "regrid")
    /\ UNCHANGED <<config, final, srcvars, bounds, dstvars, plan, mpi,
                   writes, exported>>

\* The count of an empty field raised to one row's worth.
SendCount_atleast(field) == Max(1, field.shape[1]) * field.shape[2]

\* Line 187: np.multiply(*destfield.data.shape).
SendCount(field) == field.shape[1] * field.shape[2]

\* The displacement taken from the upper row bound.
Displacement_upper(b) == (b[2] - b[1]) * b[4]

\* The displacement scaled by the row extent instead of the column extent.
Displacement_rows(b) == (b[4] - b[3]) * b[3]

Displacement(b) == (b[2] - b[1]) * b[3]

\* The Barrier of line 191 indented under `if rank == 0:`.
WaitsAtCounts_root(r) == Truthy(VERBOSE) /\ IsRoot(r)

\* Lines 188-191: with VERBOSE every rank calls comm.Barrier(); only the
\* print before it is under `if rank == 0:`.
WaitsAtCounts(r) == Truthy(VERBOSE)

\* Lines 168-192: the local destination field is regridded.  With GATHERV
\* the rank works out its count and displacement, and with VERBOSE waits in
\* a Barrier before printing them.
RegridApply(r) ==
    /\ pc[r] = "regrid"
    /\ Joined(r)
    /\ destfield' = [destfield EXCEPT ![r] = regrid(r)]
    /\ IF Truthy(GATHERV)
       THEN /\ sendcounts' = [sendcounts EXCEPT ![r] = PyInt(SendCount(destfield[r]))]
            /\ displacements' = [displacements EXCEPT ![r] = PyInt(Displacement(bounds[r]))]
            /\ IF WaitsAtCounts(r)
               THEN /\ pc' = [pc EXCEPT ![r] = "Barrier_counts"]
                    /\ Enter(r, "Barrier")
               ELSE /\ pc' = [pc EXCEPT ![r] = "gather_sendcounts"]
                    /\ UNCHANGED calls
       ELSE /\ pc' = [pc EXCEPT ![r] = "gather"]
            /\ UNCHANGED <<calls, plan>>
    /\ UNCHANGED <<config, final, srcvars, bounds, destgrid, dlat, dlon, mpi,
                   writes, exported>>

\* Lines 191-192: past the Barrier.
CountsBarrier(r) ==
    /\ pc[r] = "Barrier_counts"
    /\ Joined(r)
    /\ pc' = [pc EXCEPT ![r] = "gather_sendcounts"]
    /\ UNCHANGED <<config, calls, final, srcvars, bounds, dstvars, plan, mpi,
                   writes, exported>>

\* Line 197: sendcounts = comm.gather(sendcounts, root=0).
GatherSendcounts(r) ==
    /\ pc[r] = "gather_sendcounts"
    /\ IF IsRoot(r)
       THEN /\ AllSent(r, "gather")
            /\ sendcounts' = [sendcounts EXCEPT ![r] =
                                PyList(gather("sendcounts", r, sendcounts[r]))]
            /\ UNCHANGED mpi
       ELSE /\ sent' = [sent EXCEPT !.sendcounts[r] = sendcounts[r]]
            /\ Arrive(r)
            /\ sendcounts' = [sendcounts EXCEPT ![r] = None]
    /\ pc' = [pc EXCEPT ![r] = "gather_displacements"]
    /\ Enter(r, "gather")
    /\ UNCHANGED <<config, final, srcvars, bounds, dstvars, displacements,
                   writes, exported>>

\* Line 198: displacements = comm.gather(displacements, root=0).
GatherDisplacements(r) ==
    /\ pc[r] = "gather_displacements"
    /\ IF IsRoot(r)
       THEN /\ AllSent(r, "gather")
            /\ displacements' = [displacements EXCEPT ![r] =
                                   PyList(gather("displacements", r, displacements[r]))]
            /\ UNCHANGED mpi
       ELSE /\ sent' = [sent EXCEPT !.displacements[r] = displacements[r]]
            /\ Arrive(r)
            /\ displacements' = [displacements EXCEPT ![r] = None]
    /\ pc' = [pc EXCEPT ![r] = "Gatherv"]
    /\ Enter(r, "gather")
    /\ UNCHANGED <<config, final, srcvars, bounds, dstvars, sendcounts,
                   writes, exported>>

\* The send buffer without the row-major copy: the field's own memory.
SendBuffer_raw(field) == Buffer(field)

\* What line 205 hands to Gatherv as the send buffer.
SendBuffer(field) == Buffer(ascontiguousarray(field))

\* Lines 205 and 218: comm.Gatherv(send buffer, [final, sendcounts,
\* displacements, MPI.DOUBLE], root=0).  Only the root goes on to the output.
Gatherv(r) ==
    /\ pc[r] = "Gatherv"
    /\ IF IsRoot(r)
       THEN /\ AllSent(r, "Gatherv")
            /\ UNCHANGED mpi
            /\ LET sbufs == gather("Gatherv", r, SendBuffer(destfield[r]))
                   counts == Ints(sendcounts[r])
                   displs == Ints(displacements[r])
               IN IF IsArray(final[r]) /\ GathervFits(final[r].mem, counts, displs, sbufs)
                  THEN /\ final' = [final EXCEPT ![r].mem =
                                      Placed(@, counts, displs, sbufs, size)]
                       /\ writes' = [k \in DOMAIN writes |->
                                       writes[k] + Written(final[r].mem, counts, displs)[k]]
                       /\ pc' = [pc EXCEPT ![r] = "output"]
                  ELSE /\ pc' = [pc EXCEPT ![r] = "failed"]
                       /\ UNCHANGED <<final, writes>>
       ELSE /\ sent' = [sent EXCEPT !.Gatherv[r] = SendBuffer(destfield[r])]
            /\ Arrive(r)
            /\ pc' = [pc EXCEPT ![r] = "done"]
            /\ UNCHANGED <<final, writes>>
    /\ Enter(r, "Gatherv")
    /\ UNCHANGED <<config, srcvars, bounds, dstvars, plan, exported>>

\* Lines 211-218: final = comm.gather(destfield.data, root=0); the root
\* concatenates the pieces along axis 0 and goes on to the output.
Gather(r) ==
    /\ pc[r] = "gather"
    /\ IF IsRoot(r)
       THEN /\ AllSent(r, "gather")
            /\ UNCHANGED mpi
            /\ LET pieces == gather("gather", r, destfield[r])
               IN IF CanConcatenate(pieces)
                  THEN /\ final' = [final EXCEPT ![r] = concatenate(pieces)]
                       /\ pc' = [pc EXCEPT ![r] = "output"]
                  ELSE /\ final' = [final EXCEPT ![r] = NoArray("list")]
                       /\ pc' = [pc EXCEPT ![r] = "failed"]
       ELSE /\ sent' = [sent EXCEPT !.gather[r] = destfield[r]]
            /\ Arrive(r)
            /\ final' = [final EXCEPT ![r] = NoneArray]
            /\ pc' = [pc EXCEPT ![r] = "done"]
    /\ Enter(r, "gather")
    /\ UNCHANGED <<config, srcvars, bounds, dstvars, plan, writes, exported>>

\* `final` passed on as it is, whatever FORTRAN_CONTIGUOUS.
OutputArray_plain(a) == a

\* Lines 226-238: `final.T` with FORTRAN_CONTIGUOUS, `final` without.
OutputArray(a) == IF Truthy(FORTRAN_CONTIGUOUS) THEN Transpose(a) ELSE a

\* Lines 219-238: plot or save `final`, transposed back when the inputs were
\* transposed at load.
Output(r) ==
    /\ pc[r] = "output"
    /\ IF IsArray(final[r])
       THEN /\ exported' = [by |-> r,
                            how |-> IF Truthy(PLOT) THEN "plot" ELSE "save",
                            array |-> OutputArray(final[r])]
            /\ pc' = [pc EXCEPT ![r] = "done"]
       ELSE /\ pc' = [pc EXCEPT ![r] = "failed"]
            /\ UNCHANGED exported
    /\ UNCHANGED <<config, calls, final, srcvars, bounds, dstvars, plan, mpi,
                   writes>>

Next ==
    \E r \in Ranks :
        \/ Load(r)
        \/ SourceGrid(r)
        \/ BoundsBarrier(r)
        \/ DestGrid(r)
        \/ RegridWeights(r)
        \/ RegridApply(r)
        \/ CountsBarrier(r)
        \/ GatherSendcounts(r)
        \/ GatherDisplacements(r)
        \/ Gatherv(r)
        \/ Gather(r)
        \/ Output(r)

Spec == Init /\ [][Next]_vars

SpecConfig == InitConfig /\ [][Next]_vars

SpecEquivalence == InitEquivalence /\ [][Next]_vars

SpecMismatch == InitMismatch /\ [][Next]_vars

\* Every rank is a process of its own that keeps running: while some rank
\* can take a step, a step is taken.
SpecFair == InitToggles /\ [][Next]_vars /\ WF_vars(Next)

\* ================================================================ claims
\* The destination partition of a rank, as the script holds it after line 149.
HasDest(r) == destgrid[r].max_index # <<>>
DestBounds(r) == get_processor_bounds(destgrid[r], CENTER)
RowLo(r) == DestBounds(r)[3]
RowHi(r) == DestBounds(r)[4]
ColLo(r) == DestBounds(r)[1]
ColHi(r) == DestBounds(r)[2]
Rows == nlat.shape[1]
Cols == nlat.shape[2]
RowCount(r) == RowHi(r) - RowLo(r)
Owners(i) == {r \in Ranks : RowLo(r) <= i /\ i < RowHi(r)}
AllHaveDest == \A r \in Ranks : HasDest(r)

\* C1: the row ranges [rowLo, rowHi) the ranks obtain from
\* get_processor_bounds for the destination grid are pairwise disjoint, lie
\* inside [0, rows) and, once every rank has its own, every global row
\* belongs to exactly one of them; a grid without rows gives every rank an
\* empty range.
C1_Coverage ==
    /\ \A r \in Ranks : HasDest(r) =>
          /\ 0 <= RowLo(r) /\ RowLo(r) <= RowHi(r) /\ RowHi(r) <= Rows
          /\ bounds[r] = DestBounds(r)
    /\ \A r, q \in Ranks : (HasDest(r) /\ HasDest(q) /\ r # q) =>
          (RowHi(r) <= RowLo(q) \/ RowHi(q) <= RowLo(r))
    /\ AllHaveDest => \A i \in 0..(Rows - 1) : Cardinality(Owners(i)) = 1
    /\ \A r \in Ranks :
          LET b == get_processor_bounds(Grid(<<0, Cols>>, r, size), CENTER)
          IN b[3] = 0 /\ b[4] = 0

\* Three ranks hold their partitions of a grid whose rows do not divide.
C1_Witness ==
    /\ size = 3
    /\ Rows % size # 0
    /\ AllHaveDest
    /\ \A r \in Ranks : Len(bounds[r]) = 4 /\ bounds[r] = DestBounds(r)

\* Rows of the partition get_processor_bounds reports for a grid object.
PartRows(grid) ==
    get_processor_bounds(grid, CENTER)[4] - get_processor_bounds(grid, CENTER)[3]

Balanced(grids) ==
    \A r, q \in Ranks :
        (grids[r].max_index # <<>> /\ grids[q].max_index # <<>>) =>
            /\ PartRows(grids[r]) - PartRows(grids[q]) \in {-1, 0, 1}
            /\ r < q => PartRows(grids[r]) >= PartRows(grids[q])

\* C2: for the source grid and for the destination grid, the row counts of
\* any two ranks differ by at most one and no rank has more rows than a
\* lower-numbered rank.
C2_Balance == Balanced(sourcegrid) /\ Balanced(destgrid)

\* Two ranks share three rows: rank 0 has two of them, rank 1 one.
C2_Witness ==
    /\ size = 2
    /\ Rows = 3
    /\ AllHaveDest
    /\ bounds[0][4] - bounds[0][3] = 2
    /\ bounds[1][4] - bounds[1][3] = 1

\* The root holds the aggregated array: it is past line 216.
Aggregated == pc[rank0] \in {"output", "done"} /\ IsArray(final[rank0])
UsesGatherv == Truthy(GATHERV)

\* What each branch computes from the ranks' local destination fields.
FromGatherv(g) ==
    LET counts == [q \in Ranks |-> SendCount(destfield[q])]
        displs == [q \in Ranks |-> Displacement(bounds[q])]
        sbufs == [q \in Ranks |-> SendBuffer(destfield[q])]
        buf == empty(nlat.shape, g)
    IN [buf EXCEPT !.mem = Placed(@, counts, displs, sbufs, size)]
FromGather == concatenate([q \in Ranks |-> destfield[q]])

\* C3: from the same local destination fields, the array the root holds
\* after the Gatherv branch equals, element for element, the one the gather
\* and concatenate branch builds, and the other way round; neither branch
\* fails at the root.
C3_StrategyEquivalence ==
    /\ Aggregated =>
          IF UsesGatherv
          THEN /\ CanConcatenate([q \in Ranks |-> destfield[q]])
               /\ ArrEq(final[rank0], FromGather)
          ELSE \A g \in GarbageVals : ArrEq(final[rank0], FromGatherv(g))
    /\ pc[rank0] = "failed" => calls[rank0] = <<>>

\* Seven ranks, nine rows of several columns, Gatherv done.
C3_Witness ==
    /\ Aggregated
    /\ UsesGatherv
    /\ size = 7
    /\ Rows % size # 0
    /\ Cols >= 2
    /\ \E r \in Ranks : RowCount(r) >= 2

\* C4: once the root holds the aggregated array, its element (i, j) is the
\* element (i - rowLo, j) of the local destination field of the one rank
\* whose partition holds row i, and its shape is the destination shape.
C4_Reassembly ==
    Aggregated =>
        /\ final[rank0].shape = nlat.shape
        /\ \A i \in 0..(Rows - 1) : \A j \in 0..(Cols - 1) :
              \A r \in Owners(i) :
                  Elem(final[rank0], i, j) = Elem(destfield[r], i - RowLo(r), j)

\* Two ranks each hold rows, the root has concatenated them, and a row of
\* rank 1 carries interpolated values.
C4_Witness ==
    /\ Aggregated
    /\ ~UsesGatherv
    /\ size = 2
    /\ Rows = 3
    /\ Owners(2) = {1}
    /\ \A j \in 0..(Cols - 1) : Elem(final[rank0], 2, j) # 0

\* The collective calls of one run, which depend on the toggles only.
CallSequence ==
    <<"Grid">> \o (IF Truthy(VERBOSE) THEN <<"Barrier">> ELSE <<>>)
    \o <<"Grid", "Regrid", "regrid">>
    \o (IF Truthy(GATHERV)
        THEN (IF Truthy(VERBOSE) THEN <<"Barrier">> ELSE <<>>)
             \o <<"gather", "gather", "Gatherv">>
        ELSE <<"gather">>)

IsPrefix(s, t) == Len(s) <= Len(t) /\ SubSeq(t, 1, Len(s)) = s

\* C5: with one rank the partition of either grid is the whole grid, the
\* rank issues the calls every rank of a larger run issues, and the array it
\* ends with equals its local destination field.
C5_SerialIdentity ==
    /\ \A r \in Ranks : IsPrefix(calls[r], CallSequence)
    /\ size = 1 =>
          /\ HasDest(rank0) => bounds[rank0] = <<0, Cols, 0, Rows>>
          /\ (Len(bounds[rank0]) = 4 /\ ~HasDest(rank0)) =>
                bounds[rank0] = <<0, rlat.shape[2], 0, rlat.shape[1]>>
          /\ Aggregated => /\ ArrEq(final[rank0], destfield[rank0])
                           /\ calls[rank0] = CallSequence

\* A serial run of a grid with several rows and columns has finished.
C5_Witness ==
    /\ size = 1
    /\ pc[rank0] = "done"
    /\ Rows >= 2 /\ Cols >= 2
    /\ ArrEq(exported.array,
             IF Truthy(FORTRAN_CONTIGUOUS)
             THEN Transpose(destfield[rank0]) ELSE destfield[rank0])

\* C6: a rank other than 0 never holds an array in `final` (the name is
\* unassigned or None), never reaches the output step, and whatever has been
\* plotted or saved was exported by rank 0.
C6_RootOnly ==
    /\ \A r \in Ranks \ {rank0} :
          /\ final[r] \in {UnboundArray, NoneArray}
          /\ pc[r] # "output"
    /\ exported.how # "nothing" => exported.by = rank0

\* A run of three ranks is over: rank 0 has exported the array, the others
\* hold None.
C6_Witness ==
    /\ size = 3
    /\ \A r \in Ranks : pc[r] = "done"
    /\ \A r \in Ranks \ {rank0} : final[r] = NoneArray
    /\ exported.how \in {"plot", "save"}
    /\ IsArray(final[rank0])

\* C7: with Gatherv the root's buffer has the destination shape and, before
\* the Gatherv returns, holds only what np.empty left in it; after it every
\* cell has been written exactly once, and the placement never fails for a
\* block outside the buffer.
C7_WrittenOnce ==
    (UsesGatherv /\ pc[rank0] # "start" /\ ~KeyError(RucKeys, IVAR)) =>
        /\ IsArray(final[rank0])
        /\ final[rank0].shape = nlat.shape
        /\ DOMAIN writes = 0..(Rows * Cols - 1)
        /\ pc[rank0] \notin {"output", "done", "failed"} =>
              /\ \A k \in DOMAIN writes : writes[k] = 0
              /\ \E g \in GarbageVals : final[rank0] = empty(nlat.shape, g)
        /\ pc[rank0] \in {"output", "done"} =>
              \A k \in DOMAIN writes : writes[k] = 1
        /\ pc[rank0] # "failed"

\* Three ranks, one of them with an empty partition, have filled the buffer.
C7_Witness ==
    /\ UsesGatherv
    /\ size = 3
    /\ Rows = 2
    /\ Cols = 2
    /\ pc[rank0] = "output"
    /\ \A k \in 0..3 : writes[k] = 1

\* C8: a destination cell no source cell covers, left at 0 in the rank's
\* local destination field, is 0 at its global position of the root's array.
C8_UnmappedZero ==
    Aggregated =>
        \A r \in Ranks : \A ij \in Indices(destfield[r].shape) :
            (/\ Unmapped(Elem(dlat[r], ij[1], ij[2]), Elem(dlon[r], ij[1], ij[2]))
             /\ Elem(destfield[r], ij[1], ij[2]) = 0) =>
                Elem(final[rank0], RowLo(r) + ij[1], ColLo(r) + ij[2]) = 0

\* The last rank of three holds an unmapped cell next to a mapped one.
C8_Witness ==
    /\ Aggregated
    /\ size = 3
    /\ \E ij \in Indices(destfield[2].shape) :
          /\ Unmapped(Elem(dlat[2], ij[1], ij[2]), Elem(dlon[2], ij[1], ij[2]))
          /\ Elem(destfield[2], ij[1], ij[2]) = 0
    /\ \E ij \in Indices(destfield[2].shape) :
          Elem(final[rank0], RowLo(2) + ij[1], ij[2]) # 0

ConfigurationError ==
    \/ IVAR \notin RucKeys
    \/ GATHERV \notin PyBools
    \/ FORTRAN_CONTIGUOUS \notin PyBools

\* C9 as stated: with an IVAR the file does not hold, or a strategy or
\* layout toggle that is not a boolean, no rank ever enters a collective.
C9_Original ==
    ConfigurationError => \A r \in Ranks : calls[r] = <<>>

\* C9 as amended: an IVAR the file does not hold fails every rank at the
\* load, before it has entered any collective; a strategy or layout toggle
\* that is not a boolean fails no rank, which goes on into the collectives.
C9_ConfigFailsEarly ==
    /\ IVAR \notin RucKeys =>
          \A r \in Ranks : calls[r] = <<>> /\ pc[r] \in {"start", "failed"}
    /\ (IVAR \in RucKeys /\ ConfigurationError) =>
          \A r \in Ranks : /\ pc[r] # "failed"
                           /\ pc[r] # "start" => calls[r] # <<>>

\* Every rank of three has failed on the unknown variable name.
C9_Witness ==
    /\ IVAR \notin RucKeys
    /\ size = 3
    /\ \A r \in Ranks : pc[r] = "failed" /\ calls[r] = <<>>

\* C10: the displacement a rank computes, and each entry of the list the
\* root gathers, is rowLo of the rank's destination partition times the
\* number of columns of the destination grid; the bounds used are the
\* destination grid's, with colLo = 0 and colHi = cols on every rank.
C10_Displacement ==
    \A r \in Ranks :
        /\ HasDest(r) => ColLo(r) = 0 /\ ColHi(r) = Cols
        /\ displacements[r].kind = "int" =>
              /\ bounds[r] = DestBounds(r)
              /\ displacements[r].val[1] = RowLo(r) * Cols
        /\ displacements[r].kind = "list" =>
              \A q \in Ranks : Ints(displacements[r])[q] = RowLo(q) * Cols

\* The last of three ranks has a displacement past the start, on a
\* destination grid decomposed differently from the source grid.
C10_Witness ==
    /\ size = 3
    /\ displacements[2].kind = "int"
    /\ displacements[2].val[1] > 0
    /\ get_processor_bounds(sourcegrid[2], CENTER) # bounds[2]
    /\ RowCount(2) # Cols

\* C11: the count a rank computes at line 187 from the shape of its local
\* destination field, and every entry of the list the root gathers, is
\* (rowHi - rowLo) * (colHi - colLo) of that rank's destination partition;
\* a rank whose partition has no rows counts 0.
C11_SendCount ==
    /\ \A r \in Ranks : sendcounts[r].kind = "int" =>
          /\ HasDest(r)
          /\ sendcounts[r].val[1] = (RowHi(r) - RowLo(r)) * (ColHi(r) - ColLo(r))
          /\ RowCount(r) = 0 => sendcounts[r].val[1] = 0
    /\ \A r \in Ranks : sendcounts[r].kind = "list" =>
          \A q \in Ranks :
              Ints(sendcounts[r])[q] = (RowHi(q) - RowLo(q)) * (ColHi(q) - ColLo(q))

\* Three ranks on two rows: the last rank's partition is empty and its
\* count is 0, next to a rank with a count of its own.
C11_Witness ==
    /\ size = 3
    /\ Rows = 2
    /\ sendcounts[2] = PyInt(0)
    /\ sendcounts[1].kind = "int" /\ sendcounts[1].val[1] > 0
    /\ RowCount(2) = 0

\* The rank is past line 168: regrid(sourcefield, destfield) has returned
\* and destfield is its result.
Regridded(r) ==
    /\ pc[r] # "regrid"
    /\ \E k \in 1..Len(calls[r]) : calls[r][k] = "regrid"

\* The collective that moves field data to the root, and the ranks that have
\* issued it.
AggregationCall == IF UsesGatherv THEN "Gatherv" ELSE "gather"
Issued(r) == \E k \in 1..Len(calls[r]) : calls[r][k] = AggregationCall
Contribution(r) ==
    IF UsesGatherv THEN sent.Gatherv[r] = SendBuffer(destfield[r])
    ELSE sent.gather[r] = destfield[r]

\* C12: a rank hands its data to the aggregation collective (Gatherv, or
\* the gather of field objects) only after its own regrid call has returned,
\* and what it hands over is that regridded field; the root leaves the
\* collective only when the regrid call has returned on every rank.
C12_RegridBeforeAggregation ==
    /\ \A r \in Ranks : Issued(r) => Regridded(r)
    /\ \A r \in Ranks \ {rank0} : Issued(r) => Contribution(r)
    /\ Issued(rank0) => \A q \in Ranks : Regridded(q) /\ Issued(q)

\* Three ranks: the root has left the collective with an array, every rank
\* regridded and contributed before.
C12_Witness ==
    /\ size = 3
    /\ Aggregated
    /\ Issued(rank0)
    /\ \A q \in Ranks : Regridded(q) /\ Issued(q)
    /\ \E q \in Ranks : \E ij \in Indices(destfield[q].shape) :
          Elem(destfield[q], ij[1], ij[2]) # 0

\* The comm.gather calls a rank has issued so far.
Gathers(r) == Cardinality({k \in 1..Len(calls[r]) : calls[r][k] = "gather"})

\* The Gatherv at the root has started to fill `final`.
PlacementBegun ==
    \/ Issued(rank0)
    \/ \E k \in DOMAIN writes : writes[k] > 0

\* C13: with GATHERV the root's lists of sendcounts and displacements are
\* each gathered exactly once (lines 197 and 198), hold an entry for every
\* rank, exist only when the regrid call has returned on every rank, and
\* both exist before the Gatherv of line 205 places any data.
C13_PlanBeforePlacement ==
    UsesGatherv =>
        /\ Gathers(rank0) <= 2
        /\ sendcounts[rank0].kind = "list" <=> Gathers(rank0) >= 1
        /\ displacements[rank0].kind = "list" <=> Gathers(rank0) >= 2
        /\ sendcounts[rank0].kind = "list" =>
              /\ DOMAIN sendcounts[rank0].val = Ranks
              /\ \A q \in Ranks :
                    /\ Regridded(q)
                    /\ Ints(sendcounts[rank0])[q] = SendCount(destfield[q])
        /\ displacements[rank0].kind = "list" =>
              /\ DOMAIN displacements[rank0].val = Ranks
              /\ \A q \in Ranks :
                    /\ Regridded(q)
                    /\ Ints(displacements[rank0])[q] = Displacement(bounds[q])
        /\ PlacementBegun =>
              /\ sendcounts[rank0].kind = "list"
              /\ displacements[rank0].kind = "list"

\* Three ranks: the root holds both lists and stands before Gatherv, nothing
\* placed yet.
C13_Witness ==
    /\ UsesGatherv
    /\ size = 3
    /\ pc[rank0] = "Gatherv"
    /\ sendcounts[rank0].kind = "list"
    /\ displacements[rank0].kind = "list"
    /\ Ints(displacements[rank0])[2] > 0
    /\ ~PlacementBegun

\* C14: whatever the order in which the ranks reach a gathering collective,
\* entry q of the list of sendcounts and of the list of displacements the
\* root receives is the value rank q computed, and the array the root
\* concatenates from the gathered fields holds the field of rank 0, then of
\* rank 1, and so on, each in full.
C14_RankOrder ==
    /\ sendcounts[rank0].kind = "list" =>
          \A q \in Ranks : Ints(sendcounts[rank0])[q] = SendCount(destfield[q])
    /\ displacements[rank0].kind = "list" =>
          \A q \in Ranks : Ints(displacements[rank0])[q] = Displacement(bounds[q])
    /\ (Aggregated /\ ~UsesGatherv) =>
          LET pieces == [q \in Ranks |-> destfield[q]]
          IN \A q \in Ranks : \A ij \in Indices(destfield[q].shape) :
                Elem(final[rank0], RowStart(pieces, q) + ij[1], ij[2])
                    = Elem(destfield[q], ij[1], ij[2])

\* Three ranks: rank 2 contributed to a collective before rank 1 did, the
\* root has its result, and the two ranks contributed different fields.
C14_Witness ==
    /\ size = 3
    /\ overtaken
    /\ Aggregated
    /\ destfield[1] # destfield[2]
    /\ \E ij \in Indices(destfield[2].shape) : Elem(destfield[2], ij[1], ij[2]) # 0

\* The elements of an array read row by row.
RowMajor(a) ==
    [k \in 0..(Size(a) - 1) |-> Elem(a, k \div a.shape[2], k % a.shape[2])]

\* C15: with GATHERV, for either setting of FORTRAN_CONTIGUOUS, the buffer
\* a rank hands to Gatherv at line 205 holds the elements of its local
\* destination field row by row.
C15_RowMajorBuffer ==
    UsesGatherv =>
        /\ \A r \in Ranks : Regridded(r) =>
              SendBuffer(destfield[r]) = RowMajor(destfield[r])
        /\ \A r \in Ranks \ {rank0} : Issued(r) =>
              sent.Gatherv[r] = RowMajor(destfield[r])

\* Rank 1 has handed over a field of two rows and two columns whose memory
\* is not laid out row by row.
C15_Witness ==
    /\ UsesGatherv
    /\ size = 2
    /\ Issued(1)
    /\ destfield[1].shape = <<2, 2>>
    /\ sent.Gatherv[1] # Buffer(destfield[1])
    /\ sent.Gatherv[1] = RowMajor(destfield[1])

\* The local fields of a rank, as ESMPy holds them (column-major) and as
\* their transposed views (row-major).
LocalFields(r) ==
    {a \in {destfield[r], Transpose(destfield[r]),
             sourcefield[r], Transpose(sourcefield[r])} : IsArray(a)}

\* C16: np.ascontiguousarray applied to the result of np.ascontiguousarray
\* gives the same array, memory included, as applying it once, for the local
\* fields of every rank in either memory order.
C16_Idempotent ==
    \A r \in Ranks : \A a \in LocalFields(r) :
        /\ ascontiguousarray(ascontiguousarray(a)) = ascontiguousarray(a)
        /\ Buffer(ascontiguousarray(ascontiguousarray(a))) = RowMajor(a)

\* The root has handed a regridded field of two rows and two columns to
\* Gatherv; the conversion changed its memory.
C16_Witness ==
    /\ UsesGatherv
    /\ Issued(rank0)
    /\ destfield[rank0].shape = <<2, 2>>
    /\ Elem(destfield[rank0], 0, 1) # Elem(destfield[rank0], 1, 0)
    /\ Buffer(ascontiguousarray(destfield[rank0])) # Buffer(destfield[rank0])

\* The rank holds its source partition, and the partition's bounds reach
\* past the shape of the data array the rank slices with them at line 136.
SourceOutOfRange(r) ==
    /\ sourcegrid[r].max_index # <<>>
    /\ LET b == get_processor_bounds(sourcegrid[r], CENTER)
       IN b[4] > dat.shape[1] \/ b[2] > dat.shape[2]

\* The rank is past the assignments of lines 131-136, or failed in them.
PastSourceSlicing(r) ==
    /\ sourcegrid[r].max_index # <<>>
    /\ pc[r] \notin {"start", "Grid_source", "Barrier_bounds"}

\* C17: a rank whose partition bounds fall outside the shape of the array it
\* slices ends its slicing in an error: it never goes on with a local field
\* filled from the truncated slice.
C17_SliceOutOfRangeFails ==
    \A r \in Ranks :
        (SourceOutOfRange(r) /\ PastSourceSlicing(r)) => pc[r] = "failed"

\* Rank q is inside a collective call that the failed rank r has not issued
\* and, having stopped, never will: a call every rank has to join, or a
\* gathering call at the root.
BlockedBehind(q, r) ==
    /\ pc[r] = "failed"
    /\ \/ /\ pc[q] \in {"Grid_source", "Barrier_bounds", "Grid_dest", "Regrid",
                         "regrid", "Barrier_counts"}
          /\ Len(calls[r]) < Len(calls[q])
       \/ /\ q = rank0
          /\ pc[q] \in {"gather_sendcounts", "gather_displacements", "Gatherv",
                         "gather"}
          /\ Len(calls[r]) <= Len(calls[q])

\* C18: when a rank has failed with a local error, the run is aborted: no
\* run ends with another rank left inside a collective waiting for the
\* failed rank, and the root holds no aggregated array.
C18_FailureAbortsRun ==
    \A r \in Ranks : pc[r] = "failed" =>
        /\ ~Aggregated
        /\ \A q \in Ranks \ {r} : BlockedBehind(q, r) => ENABLED Next

AllDone == \A r \in Ranks : pc[r] = "done"
AnyFailed == \E r \in Ranks : pc[r] = "failed"

\* C19: for every setting of the toggles and every size, the collective
\* calls a rank has issued are always the first calls of one sequence that
\* is the same for every rank, a rank at the end has issued all of them, and
\* unless a rank fails every rank reaches the end of the script.
C19_Termination ==
    /\ [](\A r \in Ranks : IsPrefix(calls[r], CallSequence))
    /\ [](\A r \in Ranks : pc[r] = "done" => calls[r] = CallSequence)
    /\ <>(AllDone \/ AnyFailed)

\* Three ranks with VERBOSE and GATHERV set: all at the end, each having
\* issued the two Barriers, the two gathers and Gatherv.
C19_Witness ==
    /\ size = 3
    /\ Truthy(VERBOSE)
    /\ UsesGatherv
    /\ AllDone
    /\ \A r \in Ranks : calls[r] = CallSequence
    /\ Len(CallSequence) = 9

\* The destination file's own lat and lon arrays, before any transposition.
FileLat == FileArray(namShape, "lat")
FileLon == FileArray(namShape, "lon")

\* C20: for either setting of FORTRAN_CONTIGUOUS the array rank 0 plots or
\* saves has the shape of the destination file's lat array, and its element
\* (i, j) is the value regridded to the point whose coordinates the file
\* holds at (i, j); it is `final` transposed once when the inputs were
\* transposed at load, and `final` itself when they were not.
C20_OutputOrientation ==
    exported.how # "nothing" =>
        /\ exported.by = rank0
        /\ exported.array.shape = FileLat.shape
        /\ \A ij \in Indices(FileLat.shape) :
              Elem(exported.array, ij[1], ij[2])
                  = RegridValue(Elem(FileLat, ij[1], ij[2]), Elem(FileLon, ij[1], ij[2]))
        /\ IF Truthy(FORTRAN_CONTIGUOUS)
           THEN ArrEq(Transpose(exported.array), final[rank0])
           ELSE ArrEq(exported.array, final[rank0])

\* Inputs transposed at load, a destination file that is not square, two
\* ranks: the output has the file's shape and carries regridded values.
C20_Witness ==
    /\ Truthy(FORTRAN_CONTIGUOUS)
    /\ size = 2
    /\ exported.how # "nothing"
    /\ namShape[1] # namShape[2]
    /\ exported.array.shape = namShape
    /\ final[rank0].shape # namShape
    /\ \E ij \in Indices(namShape) : Elem(exported.array, ij[1], ij[2]) # 0

====
